---- MODULE Spec2Model ----
(***************************************************************************)
(* The conversation-orchestration engine of optimized_streaming_proxy.py:  *)
(* one request handled by OptimizedStreamingProxy, from handle_messages to *)
(* the last byte written to the response sink (self.wfile).                *)
(*                                                                         *)
(* Texts are sequences of tokens (a word or one whitespace string each),   *)
(* so that str.split() is computable.  Python's None is the token sequence *)
(* PyNone; a missing dict key is Absent until dict.get() resolves it.      *)
(*                                                                         *)
(* The backend and the tool executor are the environment.  Each backend    *)
(* call draws its outcome from BackendOutcomes: a failure (None), a 200    *)
(* body without choices, a plain reply, or a reply with a batch of tool    *)
(* calls.  The tool executor is a function of the call.  `wire` records    *)
(* every write to self.wfile in order, in both modes; a write never fails  *)
(* here (the client keeps the connection open).                            *)
(***************************************************************************)
EXTENDS Integers, Sequences, FiniteSets, TLC

\* ---------------------------------------------------------------- constants

MAX_TOOL_ITERATIONS == 15
DefaultInputTokens == 100
DefaultOutputTokens == 50
\* anthropic_request.get('max_tokens', 4096), and the cap of min(..., 16384).
DefaultMaxTokens == 4096
MaxTokensCap == 16384
\* anthropic_request.get('temperature', 0.7)
DefaultTemperature == "0.7"

\* ------------------------------------------------------------------- bounds

\* Longest tool_calls list a backend response carries.
MaxBatch == 2
\* Backend calls whose response ranges over every response of the model; a
\* later call fails, replies plainly or repeats the previous response (a
\* backend that keeps asking for the same tools).
FreeCalls == 1
\* Requests that reach the server in a run, the first one included.
MaxArrivals == 2
\* Longest 'messages' list of a request put to the message translator.
MaxMessages == 2
\* Longest 'tools' list of a request.
MaxTools == 2
\* Longest final text, in tokens (words and runs of whitespace).
MaxTextTokens == 4

\* ------------------------------------------------------------------- values

PyNone == <<"<None>">>
Absent == <<"<absent>">>
EmptyText == <<>>

\* No exception is in flight.
NoException == "<none>"

UserText == <<"list", " ", "files">>
ReplyText == <<"Found", " ", "two", "\n", "files">>
ThinkText == <<"Let", " ", "me", " ", "look">>
LsOutput == <<"a.txt", "\n", "b.txt">>

NullCalls == [null |-> TRUE, calls |-> <<>>]
ListCalls(calls) == [null |-> FALSE, calls |-> calls]
AbsentCalls == [null |-> TRUE, calls |-> <<"<absent>">>]

NoUsage == [present |-> FALSE, prompt_tokens |-> 0, completion_tokens |-> 0]
SomeUsage == [present |-> TRUE, prompt_tokens |-> 7, completion_tokens |-> 3]

\* dict.get(key, default) on a value that may be Absent.
Get(value, default) == IF value = Absent THEN default ELSE value
GetCalls(value) == IF value = AbsentCalls THEN NullCalls ELSE value
\* Python truthiness of message.get('tool_calls').
Truthy(calls) == ~calls.null /\ Len(calls.calls) > 0

\* ----------------------------------------------------------------- requests

\* Front messages: content is a string (kind "str") or a list of typed items.
FrontMessageLists ==
    { <<>>,
      << [role |-> "user", kind |-> "str", text |-> UserText, items |-> <<>>] >> }

\* A key that the JSON object does not have.
Missing == "<missing>"

\* The 'max_tokens' key of a request: missing, or a number.
NoMaxTokens == [present |-> FALSE, value |-> 0]
MaxTokens(n) == [present |-> TRUE, value |-> n]

\* A request with a body: bytes that are UTF-8 or not, and that json.loads
\* parses or not (bytes that are not UTF-8 are not JSON).  The other fields
\* are what the client put, or meant to put, in the body.
Request(parse_ok, utf8, stream, messages, max_tokens, temperature, tools) ==
    [parse_ok |-> parse_ok, utf8 |-> utf8, stream |-> stream, messages |-> messages,
     max_tokens |-> max_tokens, temperature |-> temperature, tools |-> tools]

\* The requests of the tool loop: no max_tokens, no temperature, no tools.
Requests ==
    { r \in { Request(p, u, s, m, NoMaxTokens, Missing, <<>>) :
                  p \in BOOLEAN, u \in BOOLEAN, s \in BOOLEAN, m \in FrontMessageLists } :
          r.parse_ok => r.utf8 }

\* A front message: 'role' is a string or Missing, 'content' a string (kind
\* "str", the text in `text`), a list (kind "list", the items in `items`) or
\* Missing.
FrontMessage(role, kind, text, items) ==
    [role |-> role, kind |-> kind, text |-> text, items |-> items]

\* The 'content' of a tool_result item: Missing, a string, or a list of parts.
\* A part is a mapping with or without 'text', or not a mapping at all.
Part(mapping, text) == [mapping |-> mapping, text |-> text]
NoContent == [kind |-> Missing, text |-> EmptyText, parts |-> <<>>]
StrContent(text) == [kind |-> "str", text |-> text, parts |-> <<>>]
ListContent(parts) == [kind |-> "list", text |-> EmptyText, parts |-> parts]

\* An element of a content list: a mapping with its 'type', 'text' and
\* 'content' (Missing or Absent where the key is not there), or, with mapping
\* FALSE, a bare string.
Item(mapping, type, text, content) ==
    [mapping |-> mapping, type |-> type, text |-> text, content |-> content]
TextItem(text) == Item(TRUE, "text", text, NoContent)
ToolResultItem(content) == Item(TRUE, "tool_result", Absent, content)
ImageItem == Item(TRUE, "image", Absent, NoContent)
BareItem == Item(FALSE, Missing, Absent, NoContent)

\* str(c) of a part that is a mapping without 'text'.
Repr == <<"{'type': 'image'}">>

\* ' '.join(parts)
RECURSIVE JoinSpace(_)
JoinSpace(parts) ==
    IF Len(parts) = 0 THEN EmptyText
    ELSE IF Len(parts) = 1 THEN parts[1]
    ELSE parts[1] \o <<" ">> \o JoinSpace(Tail(parts))

\* `result_text` of a tool_result item (lines 524-528).
ResultText(content) ==
    IF content.kind = "list"
    THEN JoinSpace([k \in 1..Len(content.parts) |->
                       IF content.parts[k].text = Absent THEN Repr
                       ELSE content.parts[k].text])
    ELSE content.text

\* Mutant: a tool result is folded in without its label.
RECURSIVE TextPartsUnlabelled(_)
TextPartsUnlabelled(items) ==
    IF Len(items) = 0 THEN <<>>
    ELSE LET item == items[1]
             rest == TextPartsUnlabelled(Tail(items))
         IN  IF item.type = "text" THEN <<item.text>> \o rest
             ELSE IF item.type = "tool_result"
                  THEN <<ResultText(item.content)>> \o rest
                  ELSE rest

\* The text_parts list built from one content list (lines 519-530).
RECURSIVE TextParts(_)
TextParts(items) ==
    IF Len(items) = 0 THEN <<>>
    ELSE LET item == items[1]
             rest == TextParts(Tail(items))
         IN  IF item.type = "text" THEN <<item.text>> \o rest
             ELSE IF item.type = "tool_result"
                  THEN <<(<<"Tool", " ", "result:", " ">> \o ResultText(item.content))>>
                           \o rest
                  ELSE rest

\* The exception the loop over one content list raises, if any: `item.get` on
\* an item that is no mapping, `item['text']` on a text item without text,
\* `c.get` on a part that is no mapping.
RECURSIVE ItemsRaise(_)
ItemsRaise(items) ==
    IF Len(items) = 0 THEN NoException
    ELSE LET item == items[1]
         IN  IF ~item.mapping THEN "AttributeError"
             ELSE IF item.type = "text" /\ item.text = Absent THEN "KeyError"
             ELSE IF /\ item.type = "tool_result"
                     /\ item.content.kind = "list"
                     /\ \E k \in 1..Len(item.content.parts) : ~item.content.parts[k].mapping
                  THEN "AttributeError"
             ELSE ItemsRaise(Tail(items))

\* The exception _convert_messages_to_openai raises, if any: `msg['role']` and
\* `msg['content']` on a message without the key, then the items of a list.
RECURSIVE ConvertRaises(_)
ConvertRaises(messages) ==
    IF Len(messages) = 0 THEN NoException
    ELSE LET msg == messages[1]
         IN  IF msg.role = Missing \/ msg.kind = Missing THEN "KeyError"
             ELSE IF msg.kind = "list" /\ ItemsRaise(msg.items) # NoException
                  THEN ItemsRaise(msg.items)
             ELSE ConvertRaises(Tail(messages))

Entry(role, content, tool_calls, tool_call_id) ==
    [role |-> role, content |-> content, tool_calls |-> tool_calls,
     tool_call_id |-> tool_call_id]

NoId == "<no id>"

\* Mutant: a message whose list yields no text is kept, with empty content.
RECURSIVE _convert_messages_to_openai_keeping(_)
_convert_messages_to_openai_keeping(messages) ==
    IF Len(messages) = 0 THEN <<>>
    ELSE LET msg == messages[1]
             rest == _convert_messages_to_openai_keeping(Tail(messages))
         IN  IF msg.kind = "list"
             THEN <<Entry(msg.role, JoinSpace(TextParts(msg.items)), NullCalls, NoId)>>
                      \o rest
             ELSE <<Entry(msg.role, msg.text, NullCalls, NoId)>> \o rest

RECURSIVE _convert_messages_to_openai(_)
_convert_messages_to_openai(messages) ==
    IF Len(messages) = 0 THEN <<>>
    ELSE LET msg == messages[1]
             rest == _convert_messages_to_openai(Tail(messages))
         IN  IF msg.kind = "list"
             THEN LET text_parts == TextParts(msg.items)
                  IN  IF Len(text_parts) > 0
                      THEN <<Entry(msg.role, JoinSpace(text_parts), NullCalls, NoId)>> \o rest
                      ELSE rest
             ELSE <<Entry(msg.role, msg.text, NullCalls, NoId)>> \o rest

\* ------------------------------------------------------------ tool executor

ToolCall(id, name, arguments) == [id |-> id, name |-> name, arguments |-> arguments]

\* The tool calls a backend response is built from: a known tool, an unknown
\* tool, and a call whose arguments string is not JSON.  A batch may repeat a
\* call, and with it an identifier.
ToolCallPool ==
    { ToolCall("call_1", "LS", "{}"),
      ToolCall("call_2", "Frob", "{}"),
      ToolCall("call_3", "LS", "{not json") }

\* json.loads(arguments) raises on a string that is not JSON.
JsonLoadsRaises(arguments) == arguments = "{not json"

\* Mutant: an unknown tool yields nothing.
execute_tool_locally_silent(tool_name, arguments) ==
    IF tool_name = "LS" THEN LsOutput ELSE PyNone

execute_tool_locally(tool_name, arguments) ==
    IF tool_name = "LS"
    THEN LsOutput
    ELSE <<"Tool", " ", tool_name, " ", "is", " ", "not", " ", "implemented">>

\* ------------------------------------------------------------------ backend

Batches == UNION { [1..n -> ToolCallPool] : n \in 1..MaxBatch }

\* The JSON body of a 200 response that has choices[0].message.
Body(content, tool_calls, usage) ==
    [bound |-> TRUE, none |-> FALSE, has_choices |-> TRUE,
     content |-> content, tool_calls |-> tool_calls, usage |-> usage]

\* What _call_groq_api returns for a timeout, a non-200 status or an exception.
NoneResponse ==
    [bound |-> TRUE, none |-> TRUE, has_choices |-> FALSE,
     content |-> Absent, tool_calls |-> AbsentCalls, usage |-> NoUsage]
\* A 200 response whose JSON has no 'choices' (an error object).
MalformedBody ==
    [bound |-> TRUE, none |-> FALSE, has_choices |-> FALSE,
     content |-> Absent, tool_calls |-> AbsentCalls, usage |-> NoUsage]
\* The local variable before the first assignment.
Unbound ==
    [bound |-> FALSE, none |-> TRUE, has_choices |-> FALSE,
     content |-> Absent, tool_calls |-> AbsentCalls, usage |-> NoUsage]

PlainBodies ==
    { Body(c, t, u) : c \in {ReplyText, EmptyText, PyNone, Absent},
                      t \in {AbsentCalls, NullCalls, ListCalls(<<>>)},
                      u \in {SomeUsage, NoUsage} }

ToolBodies ==
    { Body(c, ListCalls(b), u) : c \in {ThinkText, PyNone}, b \in Batches,
                                 u \in {SomeUsage} }

\* What one HTTP round trip to the backend can produce.
Outcome(kind, body) == [kind |-> kind, body |-> body]

FailureOutcomes ==
    { Outcome(k, NoneResponse) : k \in {"timeout", "status", "exception"} }

AllOutcomes ==
    FailureOutcomes \cup { Outcome("ok", b) : b \in PlainBodies \cup ToolBodies }
                    \cup { Outcome("ok", MalformedBody) }

TailOutcomes(previous) ==
    FailureOutcomes
        \cup { Outcome("ok", Body(ReplyText, AbsentCalls, SomeUsage)) }
        \cup (IF previous.bound /\ ~previous.none THEN {Outcome("ok", previous)} ELSE {})

BackendOutcomes(call, previous) ==
    IF call <= FreeCalls THEN AllOutcomes ELSE TailOutcomes(previous)

\* _call_groq_api: None unless the status is 200.
_call_groq_api(outcome) ==
    IF outcome.kind = "ok" THEN outcome.body ELSE NoneResponse

\* -------------------------------------------------------------------- frames

MessageId == "msg_00000000"
ModelName == "moonshotai/kimi-k2-instruct"
NoEventLine == "<no event line>"

\* One write to self.wfile: an SSE frame, or a piece of the HTTP response.
Written(event, data) == [event |-> event, data |-> data]

\* send_response(code) + headers + end_headers().
HttpHead(code, content_type) ==
    Written("<http>", [type |-> "http_head", code |-> code, content_type |-> content_type])
\* send_error(code, message): status line, headers and the error page.
HttpError(code) ==
    Written("<http>", [type |-> "http_error", code |-> code])
\* self.wfile.write(json.dumps(final_response).encode())
JsonBody(final) == Written("<http>", [type |-> "json_body", body |-> final])

_send_event(w, event_type, data) ==
    Append(w, Written(IF event_type # "message_start" THEN event_type ELSE NoEventLine,
                      data))

TextDelta(text) ==
    [type |-> "content_block_delta", index |-> 0,
     delta |-> [type |-> "text_delta", text |-> text]]

\* Mutant: a progress update first writes an empty delta to clear the last one.
_send_progress_update_clearing(w, text) ==
    _send_event(_send_event(w, "content_block_delta", TextDelta(EmptyText)),
                "content_block_delta", TextDelta(text))

_send_progress_update(w, text) == _send_event(w, "content_block_delta", TextDelta(text))

MessageStart ==
    [type |-> "message_start",
     message |-> [id |-> MessageId, type |-> "message", role |-> "assistant",
                  content |-> <<>>, model |-> ModelName, stop_reason |-> PyNone,
                  usage |-> [input_tokens |-> 0, output_tokens |-> 0]]]

ContentBlockStart ==
    [type |-> "content_block_start", index |-> 0,
     content_block |-> [type |-> "text", text |-> EmptyText]]

StartingText == <<"Starting...">>
\* Mutant: every iteration is announced as the first.
ThinkingTextFirst(iteration) == <<"Thinking", " ", "(step", " ", "1)...">>

ThinkingText(iteration) == <<"Thinking", " ", "(step", " ", ToString(iteration) \o ")...">>

\* ', '.join(names)
RECURSIVE JoinComma(_)
JoinComma(names) ==
    IF Len(names) = 0 THEN ""
    ELSE IF Len(names) = 1 THEN names[1]
    ELSE names[1] \o ", " \o JoinComma(Tail(names))

ToolNames(calls) == [k \in 1..Len(calls) |-> calls[k].name]
ExecutingText(calls) == <<"Executing", " ", JoinComma(ToolNames(calls)) \o "...">>
ToolProgressText(name, k, n) ==
    <<name, " ", "(" \o ToString(k) \o "/" \o ToString(n) \o ")...">>

\* str.split(): the words of a text, whitespace tokens dropped.
IsSpace(token) == token \in {" ", "\n", "\n\n", "  ", "\t"}
Split(text) == SelectSeq(text, LAMBDA token : ~IsSpace(token))

\* `if not text`
Falsy(text) == text = PyNone \/ text = EmptyText

RECURSIVE WordDeltas(_, _, _)
WordDeltas(w, words, k) ==
    IF k > Len(words) THEN w
    ELSE WordDeltas(_send_event(w, "content_block_delta",
                        TextDelta(IF k < Len(words) THEN <<words[k], " ">> ELSE <<words[k]>>)),
                    words, k + 1)

\* Mutant: the separator is written whatever the text.
_stream_text_naturally_always(w, text) ==
    WordDeltas(_send_event(w, "content_block_delta", TextDelta(<<"\n\n">>)),
               IF Falsy(text) THEN <<>> ELSE Split(text), 1)

\* Mutant: the text is streamed as it is, whitespace included.
_stream_text_naturally_verbatim(w, text) ==
    IF Falsy(text) THEN w
    ELSE LET RECURSIVE Each(_, _)
             Each(v, k) ==
                 IF k > Len(text) THEN v
                 ELSE Each(_send_event(v, "content_block_delta", TextDelta(<<text[k]>>)),
                           k + 1)
         IN  Each(_send_event(w, "content_block_delta", TextDelta(<<"\n\n">>)), 1)

_stream_text_naturally(w, text) ==
    IF Falsy(text) THEN w
    ELSE WordDeltas(_send_event(w, "content_block_delta", TextDelta(<<"\n\n">>)),
                    Split(text), 1)

_extract_text_from_response(final) ==
    IF \E k \in 1..Len(final.content) : final.content[k].type = "text"
    THEN LET k == CHOOSE k \in 1..Len(final.content) :
                    /\ final.content[k].type = "text"
                    /\ \A j \in 1..(k - 1) : final.content[j].type # "text"
         IN  final.content[k].text
    ELSE EmptyText

\* Mutant: message_stop written before message_delta.
_send_completion_events_reordered(w, final) ==
    LET w1 == _send_event(w, "content_block_stop", [type |-> "content_block_stop", index |-> 0])
        w2 == _send_event(w1, "message_stop", [type |-> "message_stop"])
    IN  _send_event(w2, "message_delta",
            [type |-> "message_delta",
             delta |-> [stop_reason |-> final.stop_reason, stop_sequence |-> PyNone],
             usage |-> final.usage])

\* Mutant: message_delta reports the zero usage of message_start.
_send_completion_events_zero_usage(w, final) ==
    LET w1 == _send_event(w, "content_block_stop", [type |-> "content_block_stop", index |-> 0])
        w2 == _send_event(w1, "message_delta",
                 [type |-> "message_delta",
                  delta |-> [stop_reason |-> final.stop_reason, stop_sequence |-> PyNone],
                  usage |-> [input_tokens |-> 0, output_tokens |-> 0]])
    IN  _send_event(w2, "message_stop", [type |-> "message_stop"])

_send_completion_events(w, final) ==
    LET w1 == _send_event(w, "content_block_stop", [type |-> "content_block_stop", index |-> 0])
        w2 == _send_event(w1, "message_delta",
                 [type |-> "message_delta",
                  delta |-> [stop_reason |-> final.stop_reason, stop_sequence |-> PyNone],
                  usage |-> final.usage])
    IN  _send_event(w2, "message_stop", [type |-> "message_stop"])

_send_error_event(w, error_message) ==
    _send_event(w, "error",
        [type |-> "error", error |-> [type |-> "api_error", message |-> error_message]])

\* ------------------------------------------------------------------ payload

\* A tool declaration of the front protocol; a key is Missing or has a value.
FrontTool(name, input_schema, description) ==
    [name |-> name, input_schema |-> input_schema, description |-> description]

\* Mutant: a name is enough for a tool to be declared.
ValidToolNamed(tool) == tool.name # Missing

\* `if 'name' in tool and 'input_schema' in tool`
ValidTool(tool) == tool.name # Missing /\ tool.input_schema # Missing

\* The function declaration appended for one valid tool.
FunctionDeclaration(tool) ==
    [type |-> "function",
     function |-> [name |-> tool.name,
                   description |-> IF tool.description = Missing THEN ""
                                   ELSE tool.description,
                   parameters |-> tool.input_schema]]

_convert_tools_to_openai(tools) ==
    LET valid == SelectSeq(tools, ValidTool)
    IN  [k \in 1..Len(valid) |-> FunctionDeclaration(valid[k])]

\* min(a, b)
Min(a, b) == IF a <= b THEN a ELSE b

\* The 'tools' key of a payload.
NoTools == [attached |-> FALSE, list |-> <<>>]
Tools(list) == [attached |-> TRUE, list |-> list]

\* Mutant: the caller's max_tokens goes to the backend as it came.
PayloadUncapped(messages, tools, req) ==
    [model |-> ModelName,
     messages |-> messages,
     max_tokens |-> IF req.max_tokens.present THEN req.max_tokens.value
                    ELSE DefaultMaxTokens,
     temperature |-> IF req.temperature = Missing THEN DefaultTemperature
                     ELSE req.temperature,
     tools |-> IF Len(tools) > 0 THEN Tools(tools) ELSE NoTools]

\* The payload _call_groq_api builds.
Payload(messages, tools, req) ==
    [model |-> ModelName,
     messages |-> messages,
     max_tokens |-> Min(IF req.max_tokens.present THEN req.max_tokens.value
                        ELSE DefaultMaxTokens,
                        MaxTokensCap),
     temperature |-> IF req.temperature = Missing THEN DefaultTemperature
                     ELSE req.temperature,
     tools |-> IF Len(tools) > 0 THEN Tools(tools) ELSE NoTools]

\* No requests.post has been made.
NoPayload ==
    [model |-> ModelName, messages |-> <<>>, max_tokens |-> 0,
     temperature |-> Missing, tools |-> NoTools]

\* --------------------------------------------------------------------- state

VARIABLES
    pc,                     \* where the handler of the request stands
    request,                \* the inbound request
    wire,                   \* everything written to self.wfile, in order
    conversation_messages,  \* the back-protocol conversation
    iteration,              \* the loop counter
    total_tool_calls,       \* the tool-call counter
    response,               \* what the last _call_groq_api returned
    tool_calls,             \* the batch being executed
    i,                      \* position in the batch (1-based)
    final_response,         \* the response object once built
    exception,              \* the exception that left the orchestration
    backend_log,            \* history: what each _call_groq_api call returned
    tool_executions,        \* history: the tool calls handed to execute_tool_locally
    client,                 \* the peer of self.wfile: connected, or closed after
                            \* having received a number of the writes
    payload,                \* the JSON body of the last requests.post
    pending,                \* the server: requests that arrived and wait to be handled
    finished                \* the server: the requests handled so far, with what
                            \* their handlers left

vars ==
    <<pc, request, wire, conversation_messages, iteration, total_tool_calls, response,
      tool_calls, i, final_response, exception, backend_log, tool_executions, client,
      payload, pending, finished>>

\* The number of backend calls made so far.
backend_calls == Len(backend_log)

NoFinal ==
    [id |-> "<unbuilt>", type |-> "message", role |-> "assistant", content |-> <<>>,
     model |-> ModelName, stop_reason |-> "<unbuilt>",
     usage |-> [input_tokens |-> 0, output_tokens |-> 0]]

\* The client holds the connection open and reads what is written.
Connected == [closed |-> FALSE, received |-> 0]

\* The handler of one connection before it has read the request, for a
\* request of the given set.
Start(requests) ==
    /\ pc = "idle"
    /\ request \in requests
    /\ wire = <<>>
    /\ conversation_messages = <<>>
    /\ iteration = 0
    /\ total_tool_calls = 0
    /\ response = Unbound
    /\ tool_calls = <<>>
    /\ i = 0
    /\ final_response = NoFinal
    /\ exception = NoException
    /\ backend_log = <<>>
    /\ tool_executions = <<>>
    /\ client = Connected
    /\ payload = NoPayload
    /\ pending = <<>>
    /\ finished = <<>>

Init == Start(Requests)

\* ------------------------------------------------------------------- actions

\* The frames handle_streaming_conversation writes before the loop.
StreamPrologue(w) ==
    _send_event(_send_event(Append(w, HttpHead(200, "text/event-stream")),
                            "message_start", MessageStart),
                "content_block_start", ContentBlockStart)

\* What json.loads(post_data) raises, if anything: it decodes the bytes, then
\* parses the text.
BodyRaises(req) ==
    IF ~req.utf8 THEN "UnicodeDecodeError"
    ELSE IF ~req.parse_ok THEN "JSONDecodeError"
    ELSE NoException

\* The except clauses of handle_messages: json.JSONDecodeError is answered
\* with 400, any other exception with 500.
RejectMalformed(w, error) ==
    Append(w, IF error = "JSONDecodeError" THEN HttpError(400) ELSE HttpError(500))

\* Mutant: the non-streaming handler answers without running the tool loop.
LoopEntryStreamingOnly(stream) == IF stream THEN "loop" ELSE "build"

\* Where either handler goes next: handle_streaming_conversation calls
\* _process_conversation_with_streaming, and _execute_complete_conversation
\* calls the same method.
LoopEntry(stream) == "loop"

\* handle_messages up to the while loop: json.loads, the dispatch on `stream`,
\* the streaming prologue, the first progress update and the conversion.
handle_messages ==
    /\ pc = "idle"
    /\ IF BodyRaises(request) # NoException
       THEN /\ wire' = RejectMalformed(wire, BodyRaises(request))
            /\ pc' = "done"
            /\ UNCHANGED <<conversation_messages, exception>>
       ELSE /\ wire' = _send_progress_update(
                           IF request.stream THEN StreamPrologue(wire) ELSE wire,
                           StartingText)
            /\ IF ConvertRaises(request.messages) # NoException
               THEN /\ exception' = ConvertRaises(request.messages)
                    /\ pc' = "raise"
                    /\ UNCHANGED conversation_messages
               ELSE /\ conversation_messages' =
                           _convert_messages_to_openai(request.messages)
                    /\ pc' = LoopEntry(request.stream)
                    /\ UNCHANGED exception
    /\ UNCHANGED <<payload, pending, finished, client,
                   request, iteration, total_tool_calls, response, tool_calls, i,
                   final_response, backend_log, tool_executions>>

\* Mutant: a new entry takes the place of the last one.
AppendEntryInPlace(conversation, entry) ==
    IF Len(conversation) > 0
    THEN [conversation EXCEPT ![Len(conversation)] = entry]
    ELSE << entry >>

\* `conversation_messages.append(entry)`
AppendEntry(conversation, entry) == Append(conversation, entry)

\* The conversation entry appended for the backend's message.
AssistantEntry(message) ==
    Entry("assistant", Get(message.content, EmptyText), GetCalls(message.tool_calls), NoId)

\* Mutant: the loop condition off by one.
LoopContinuesInclusive(n) == n <= MAX_TOOL_ITERATIONS

\* `while iteration < MAX_TOOL_ITERATIONS`
LoopContinues(n) == n < MAX_TOOL_ITERATIONS

\* Mutant: a backend call without a response sends the loop round again.
AfterNoResponseRetry == "loop"

\* `if not response: ... break`: where the handler stands next.
AfterNoResponse == "build"

\* Mutant: the batch of the last iteration is not run, as no backend call
\* would see its results.
AfterToolCallsBelowCeiling(n) == IF n < MAX_TOOL_ITERATIONS THEN "tools" ELSE "build"

\* `if message.get('tool_calls'):` the batch is run in every iteration n.
AfterToolCalls(n) == "tools"

\* One pass through the head of the loop: the counter, the progress update, the
\* backend call, and the inspection of its response up to the first tool call.
call_backend(outcome) ==
    /\ pc = "loop"
    /\ LoopContinues(iteration)
    /\ iteration' = iteration + 1
    /\ response' = _call_groq_api(outcome)
    /\ backend_log' = Append(backend_log, response')
    /\ LET w1 == _send_progress_update(wire, ThinkingText(iteration'))
           message == response'
       IN  IF response'.none
           THEN /\ pc' = AfterNoResponse
                /\ wire' = w1
                /\ UNCHANGED <<conversation_messages, total_tool_calls, tool_calls, i,
                               exception>>
           ELSE IF ~response'.has_choices
           THEN /\ pc' = "raise"
                /\ exception' = "KeyError"
                /\ wire' = w1
                /\ UNCHANGED <<conversation_messages, total_tool_calls, tool_calls, i>>
           ELSE /\ conversation_messages' =
                       AppendEntry(conversation_messages, AssistantEntry(message))
                /\ IF Truthy(GetCalls(message.tool_calls))
                   THEN /\ tool_calls' = message.tool_calls.calls
                        /\ total_tool_calls' = total_tool_calls + Len(tool_calls')
                        /\ wire' = _send_progress_update(w1, ExecutingText(tool_calls'))
                        /\ i' = 1
                        /\ pc' = AfterToolCalls(iteration')
                   ELSE /\ pc' = "build"
                        /\ wire' = w1
                        /\ UNCHANGED <<total_tool_calls, tool_calls, i>>
                /\ UNCHANGED exception
    /\ payload' = Payload(conversation_messages, _convert_tools_to_openai(request.tools),
                          request)
    /\ UNCHANGED <<pending, finished, client, request, final_response, tool_executions>>

\* Mutant: every tool entry is correlated with the same identifier.
ToolEntryFixedId(tool_call) ==
    Entry("tool", execute_tool_locally(tool_call.name, tool_call.arguments), NullCalls,
          "call_1")

\* The tool entry appended for one executed call.
ToolEntry(tool_call) ==
    Entry("tool", execute_tool_locally(tool_call.name, tool_call.arguments), NullCalls,
          tool_call.id)

\* Mutant: the batch is left after its first call.
MoreCallsNever(k, calls) == FALSE

\* `for i, tool_call in enumerate(tool_calls)`: calls remain after the k-th.
MoreCalls(k, calls) == k < Len(calls)

\* Mutant: a call whose arguments are not JSON is passed over and the loop
\* goes on to its next backend call.
AfterBadArgumentsSkip == "loop"

\* `tool_args = json.loads(...)` raises outside any try of the loop: where
\* the handler stands next.
AfterBadArguments == "raise"

\* One pass through the body of `for i, tool_call in enumerate(tool_calls)`.
execute_tool ==
    /\ pc = "tools"
    /\ LET tool_call == tool_calls[i]
       IN  IF JsonLoadsRaises(tool_call.arguments)
           THEN /\ pc' = AfterBadArguments
                /\ exception' = "JSONDecodeError"
                /\ UNCHANGED <<wire, conversation_messages, i, tool_executions>>
           ELSE /\ wire' = IF Len(tool_calls) > 1
                           THEN _send_progress_update(wire,
                                    ToolProgressText(tool_call.name, i, Len(tool_calls)))
                           ELSE wire
                /\ tool_executions' = Append(tool_executions, tool_call)
                /\ conversation_messages' =
                       AppendEntry(conversation_messages, ToolEntry(tool_call))
                /\ IF MoreCalls(i, tool_calls)
                   THEN i' = i + 1 /\ pc' = "tools"
                   ELSE i' = i /\ pc' = "loop"
                /\ UNCHANGED exception
    /\ UNCHANGED <<payload, pending, finished, client,
                   request, iteration, total_tool_calls, response, tool_calls,
                   final_response, backend_log>>

\* `while iteration < MAX_TOOL_ITERATIONS` found false.
loop_exit ==
    /\ pc = "loop"
    /\ ~LoopContinues(iteration)
    /\ pc' = "build"
    /\ UNCHANGED <<payload, pending, finished, client,
                   request, wire, conversation_messages, iteration, total_tool_calls,
                   response, tool_calls, i, final_response, exception, backend_log,
                   tool_executions>>

\* Mutant: the first entry of the conversation is taken for the answer.
FinalMessageFirst(conversation) == conversation[1]

\* conversation_messages[-1]
FinalMessage(conversation) == conversation[Len(conversation)]

\* response.get('usage', {}).get(..., default)
FinalUsage(resp) ==
    [input_tokens |-> IF resp.usage.present THEN resp.usage.prompt_tokens
                      ELSE DefaultInputTokens,
     output_tokens |-> IF resp.usage.present THEN resp.usage.completion_tokens
                       ELSE DefaultOutputTokens]

\* Mutant: the stop reason reports a pending tool use.
FinalResponseToolUse(conversation, resp) ==
    [id |-> MessageId, type |-> "message", role |-> "assistant",
     content |-> << [type |-> "text", text |-> FinalMessage(conversation).content] >>,
     model |-> ModelName, stop_reason |-> "tool_use", usage |-> FinalUsage(resp)]

\* Mutant: tool calls of the last response are passed on to the caller.
FinalResponsePassingCalls(conversation, resp) ==
    LET calls == IF Truthy(GetCalls(resp.tool_calls)) THEN resp.tool_calls.calls ELSE <<>>
    IN  [id |-> MessageId, type |-> "message", role |-> "assistant",
         content |-> << [type |-> "text", text |-> FinalMessage(conversation).content] >>
                         \o [k \in 1..Len(calls) |->
                                 [type |-> "tool_use", id |-> calls[k].id,
                                  name |-> calls[k].name]],
         model |-> ModelName,
         stop_reason |-> IF Len(calls) > 0 THEN "tool_use" ELSE "end_turn",
         usage |-> FinalUsage(resp)]

FinalResponse(conversation, resp) ==
    [id |-> MessageId, type |-> "message", role |-> "assistant",
     content |-> << [type |-> "text", text |-> FinalMessage(conversation).content] >>,
     model |-> ModelName, stop_reason |-> "end_turn", usage |-> FinalUsage(resp)]

\* What building the final response raises, if anything.
BuildRaises(conversation, resp) ==
    IF Len(conversation) = 0 THEN "IndexError"
    ELSE IF resp.none THEN "AttributeError"
    ELSE NoException

\* "Build final response", after the loop.
build_final_response ==
    /\ pc = "build"
    /\ IF BuildRaises(conversation_messages, response) # NoException
       THEN /\ pc' = "raise"
            /\ exception' = BuildRaises(conversation_messages, response)
            /\ UNCHANGED final_response
       ELSE /\ pc' = "respond"
            /\ final_response' = FinalResponse(conversation_messages, response)
            /\ UNCHANGED exception
    /\ UNCHANGED <<payload, pending, finished, client,
                   request, wire, conversation_messages, iteration, total_tool_calls,
                   response, tool_calls, i, backend_log, tool_executions>>

\* What the handler writes once the final response is returned to it.
Respond(w, stream, final) ==
    IF stream
    THEN _send_completion_events(
             _stream_text_naturally(w, _extract_text_from_response(final)), final)
    ELSE Append(Append(w, HttpHead(200, "application/json")), JsonBody(final))

respond ==
    /\ pc = "respond"
    /\ wire' = Respond(wire, request.stream, final_response)
    /\ pc' = "done"
    /\ UNCHANGED <<payload, pending, finished, client,
                   request, conversation_messages, iteration, total_tool_calls, response,
                   tool_calls, i, final_response, exception, backend_log,
                   tool_executions>>

\* Mutant: the streaming handler closes the turn after reporting the error.
HandleExceptionThenStop(w, stream, error) ==
    IF stream
    THEN _send_event(_send_error_event(w, error), "message_stop", [type |-> "message_stop"])
    ELSE Append(w, HttpError(500))

\* Mutant: the non-streaming handler answers a failure with 200 and the
\* unbuilt response.
HandleExceptionPartialBody(w, stream, error) ==
    IF stream THEN _send_error_event(w, error)
    ELSE Append(Append(w, HttpHead(200, "application/json")), JsonBody(NoFinal))

\* The `except Exception` clause of the handler that was running.
HandleException(w, stream, error) ==
    IF stream THEN _send_error_event(w, error) ELSE Append(w, HttpError(500))

handle_exception ==
    /\ pc = "raise"
    /\ wire' = HandleException(wire, request.stream, exception)
    /\ pc' = "done"
    /\ UNCHANGED <<payload, pending, finished, client,
                   request, conversation_messages, iteration, total_tool_calls, response,
                   tool_calls, i, final_response, exception, backend_log,
                   tool_executions>>

Next ==
    \/ handle_messages
    \/ \E outcome \in BackendOutcomes(iteration + 1, response) : call_backend(outcome)
    \/ execute_tool
    \/ loop_exit
    \/ build_final_response
    \/ respond
    \/ handle_exception

Spec == Init /\ [][Next]_vars

\* The client of a streaming request closes the connection while the handler
\* is at work; it has received what was written so far.  Every later write to
\* self.wfile raises inside _send_event, which logs the exception and returns.
client_closes ==
    /\ request.parse_ok
    /\ request.stream
    /\ pc \in {"loop", "tools", "build", "respond", "raise"}
    /\ ~client.closed
    /\ client' = [closed |-> TRUE, received |-> Len(wire)]
    /\ UNCHANGED <<pc, request, wire, conversation_messages, iteration, total_tool_calls,
                   response, tool_calls, i, final_response, exception, backend_log,
                   tool_executions, payload, pending, finished>>

ClosingNext == Next \/ client_closes

\* The handler with a client that may go away.
ClosingSpec == Init /\ [][ClosingNext]_vars

\* The handler runs to completion: every call it makes returns (the backend
\* call within its timeout, the tool executor with a text).
FairSpec == Spec /\ WF_vars(Next)

\* -------------------------------------------------------------------- server

\* An HTTP request on a connection the server has not accepted yet.
Inbound(method, path, body) == [method |-> method, path |-> path, body |-> body]

\* A GET request has no body.
NoBody == Request(FALSE, TRUE, FALSE, <<>>, NoMaxTokens, Missing, <<>>)

\* The message requests sent to the server while it runs.
ServerRequests ==
    { Request(TRUE, TRUE, s, << [role |-> "user", kind |-> "str", text |-> UserText,
                                 items |-> <<>>] >>, NoMaxTokens, Missing, <<>>) :
          s \in BOOLEAN }

Arrivals ==
    { Inbound("GET", "/health", NoBody), Inbound("GET", "/metrics", NoBody),
      Inbound("POST", "/v1/complete", NoBody) }
        \cup { Inbound("POST", "/v1/messages", r) : r \in ServerRequests }

\* A short backend: it fails, replies, or asks for LS; having asked for LS, it
\* replies on the second call or goes on asking up to the ceiling.
ServerOutcomes(call, previous) ==
    IF call = 1
    THEN { Outcome("timeout", NoneResponse),
           Outcome("ok", Body(ReplyText, AbsentCalls, SomeUsage)),
           Outcome("ok", Body(PyNone, ListCalls(<< ToolCall("call_1", "LS", "{}") >>),
                              SomeUsage)) }
    ELSE { Outcome("ok", previous) }
             \cup (IF call = 2 THEN { Outcome("ok", Body(ReplyText, AbsentCalls, SomeUsage)) }
                   ELSE {})

\* What a handler left behind: the request, what it wrote to its connection,
\* and the locals of _process_conversation_with_streaming.
Served(inbound, w, conversation, n, log, executions) ==
    [inbound |-> inbound, wire |-> w, conversation_messages |-> conversation,
     iteration |-> n, backend_log |-> log, tool_executions |-> executions]

\* The body of the health response.
HealthBody ==
    [status |-> "ok", service |-> "kimi-streaming-proxy", version |-> "1.0.0",
     features |-> <<"streaming", "tool_calling", "claude_code_compatible">>]

\* A client connects and sends a request; the listening socket queues it.
arrive(inbound) ==
    /\ Len(pending) + Len(finished) < MaxArrivals
    /\ pending' = Append(pending, inbound)
    /\ UNCHANGED <<pc, request, wire, conversation_messages, iteration, total_tool_calls,
                   response, tool_calls, i, final_response, exception, backend_log,
                   tool_executions, client, payload, finished>>

\* The handler of a message request returns: the connection is shut down and
\* serve_forever is back at its select().
finish_request ==
    /\ pc = "done"
    /\ pc' = "free"
    /\ finished' = Append(finished,
                          Served(Inbound("POST", "/v1/messages", request), wire,
                                 conversation_messages, iteration, backend_log,
                                 tool_executions))
    /\ UNCHANGED <<request, wire, conversation_messages, iteration, total_tool_calls,
                   response, tool_calls, i, final_response, exception, backend_log,
                   tool_executions, client, payload, pending>>

\* Mutant: a threading server, which hands every connection to a handler as
\* soon as it comes in.
AcceptsNextAnytime(at) == TRUE

\* serve_forever accepts the next connection when the handler of the last one
\* has returned.
AcceptsNext(at) == at = "free"

\* do_GET, and do_POST for a path that is not a messages path: the whole
\* handler, run by the server thread on the next connection.
do_GET ==
    /\ AcceptsNext(pc)
    /\ Len(pending) > 0
    /\ LET inbound == Head(pending)
       IN  /\ inbound.method = "GET" \/ inbound.path \notin {"/v1/messages", "/messages"}
           /\ finished' =
                  Append(finished,
                         Served(inbound,
                                IF inbound.method = "GET" /\ inbound.path = "/health"
                                THEN << HttpHead(200, "application/json"),
                                        JsonBody(HealthBody) >>
                                ELSE << HttpError(404) >>,
                                <<>>, 0, <<>>, <<>>))
    /\ pending' = Tail(pending)
    /\ UNCHANGED <<pc, request, wire, conversation_messages, iteration, total_tool_calls,
                   response, tool_calls, i, final_response, exception, backend_log,
                   tool_executions, client, payload>>

\* Mutant: the loop counter lives on the class and is never reset.
LoopCounterShared(previous) == previous

\* `iteration = 0`: the counter is a local of the call.
LoopCounterStart(previous) == 0

\* do_POST for a messages path: the server thread builds a new handler for the
\* next connection; it has its own wfile and the method its own locals.
do_POST ==
    /\ AcceptsNext(pc)
    /\ Len(pending) > 0
    /\ Head(pending).method = "POST"
    /\ Head(pending).path \in {"/v1/messages", "/messages"}
    /\ request' = Head(pending).body
    /\ pending' = Tail(pending)
    /\ pc' = "idle"
    /\ wire' = <<>>
    /\ conversation_messages' = <<>>
    /\ iteration' = LoopCounterStart(iteration)
    /\ total_tool_calls' = 0
    /\ response' = Unbound
    /\ tool_calls' = <<>>
    /\ i' = 0
    /\ final_response' = NoFinal
    /\ exception' = NoException
    /\ backend_log' = <<>>
    /\ tool_executions' = <<>>
    /\ client' = Connected
    /\ payload' = NoPayload
    /\ UNCHANGED finished

ServerInit ==
    /\ Init
    /\ request \in ServerRequests

ServerNext ==
    \/ handle_messages
    \/ \E outcome \in ServerOutcomes(iteration + 1, response) : call_backend(outcome)
    \/ execute_tool
    \/ loop_exit
    \/ build_final_response
    \/ respond
    \/ handle_exception
    \/ \E inbound \in Arrivals : arrive(inbound)
    \/ finish_request
    \/ do_GET
    \/ do_POST

\* HTTPServer.serve_forever: one thread, one connection at a time.
ServerSpec == ServerInit /\ [][ServerNext]_vars

\* ------------------------------------------------------- message translation

\* Front messages put to the translator: string content, content lists with
\* text, tool_result and other items, and messages that lack a key or hold an
\* item or part that is no mapping.
MessagePool ==
    { FrontMessage("user", "str", UserText, <<>>),
      FrontMessage("assistant", "str", ReplyText, <<>>),
      FrontMessage("user", "list", EmptyText, <<>>),
      FrontMessage("user", "list", EmptyText, << ImageItem >>),
      FrontMessage("user", "list", EmptyText, << TextItem(EmptyText) >>),
      FrontMessage("user", "list", EmptyText,
                   << ToolResultItem(StrContent(LsOutput)) >>),
      FrontMessage("user", "list", EmptyText, << ToolResultItem(NoContent) >>),
      FrontMessage("assistant", "list", EmptyText,
                   << TextItem(ThinkText), ImageItem,
                      ToolResultItem(ListContent(<< Part(TRUE, LsOutput),
                                                    Part(TRUE, Absent) >>)),
                      TextItem(UserText) >>),
      FrontMessage(Missing, "str", UserText, <<>>),
      FrontMessage("user", Missing, EmptyText, <<>>),
      FrontMessage("user", "list", EmptyText, << TextItem(UserText), BareItem >>),
      FrontMessage("user", "list", EmptyText, << TextItem(Absent) >>),
      FrontMessage("user", "list", EmptyText,
                   << ToolResultItem(ListContent(<< Part(FALSE, Absent) >>)) >>) }

MessageLists == UNION { [1..n -> MessagePool] : n \in 0..MaxMessages }

ConvertRequests ==
    { Request(TRUE, TRUE, s, m, NoMaxTokens, Missing, <<>>) :
          s \in BOOLEAN, m \in MessageLists }

ConvertInit == Start(ConvertRequests)

\* The handler up to the head of the loop, or to its `except` clause.
ConvertNext ==
    \/ handle_messages
    \/ handle_exception

ConvertSpec == ConvertInit /\ [][ConvertNext]_vars

\* ------------------------------------------------------- backend requests

\* Tool declarations of a request: with and without name, input_schema and
\* description.
ObjectSchema == "{'type': 'object'}"
PathSchema == "{'type': 'object', 'required': ['path']}"
ToolPool ==
    { FrontTool(n, sc, d) : n \in {"LS", Missing},
                            sc \in {ObjectSchema, PathSchema, Missing},
                            d \in {"List files", Missing} }

ToolLists == UNION { [1..n -> ToolPool] : n \in 0..MaxTools }

\* What a caller puts under 'max_tokens': nothing, or a number below, at or
\* above the default and the cap.
MaxTokensValues ==
    { NoMaxTokens } \cup
    { MaxTokens(n) : n \in {1, DefaultMaxTokens, MaxTokensCap - 1, MaxTokensCap,
                            MaxTokensCap + 1, 2 * MaxTokensCap} }

PayloadRequests ==
    { Request(TRUE, TRUE, s, << FrontMessage("user", "str", UserText, <<>>) >>, mt,
              Missing, t) :
          s \in BOOLEAN, mt \in MaxTokensValues, t \in ToolLists }

\* The one backend call of these runs fails or brings a plain reply.
PayloadOutcomes ==
    { Outcome("timeout", NoneResponse),
      Outcome("ok", Body(ReplyText, AbsentCalls, SomeUsage)) }

PayloadInit == Start(PayloadRequests)

\* The handler up to the return of its first backend call.
PayloadNext ==
    \/ handle_messages
    \/ \E outcome \in PayloadOutcomes : call_backend(outcome)

PayloadSpec == PayloadInit /\ [][PayloadNext]_vars

\* ------------------------------------------------------- streamed answers

\* Final texts: words and runs of whitespace in turn, starting and ending with
\* either, so that a token sequence stands for one string only.
TextWords == {"Found", "files"}
TextSpaces == {" ", "  ", "\n"}
TextPool ==
    UNION { { t \in [1..n -> TextWords \cup TextSpaces] :
                  \A k \in 1..(n - 1) : IsSpace(t[k]) # IsSpace(t[k + 1]) } :
            n \in 1..MaxTextTokens }

StreamRequests ==
    { Request(TRUE, TRUE, TRUE, << FrontMessage("user", "str", UserText, <<>>) >>,
              NoMaxTokens, Missing, <<>>) }

\* The backend replies at once, with one of the texts.
StreamOutcomes ==
    { Outcome("ok", Body(t, AbsentCalls, SomeUsage)) : t \in TextPool }

StreamInit == Start(StreamRequests)

\* A streaming handler whose first backend call brings the final text.
StreamNext ==
    \/ handle_messages
    \/ \E outcome \in StreamOutcomes : call_backend(outcome)
    \/ build_final_response
    \/ respond

StreamSpec == StreamInit /\ [][StreamNext]_vars

\* ------------------------------------------------------------------- helpers

\* The SSE frames on the wire, in order, without the HTTP head.
Frames == SelectSeq(wire, LAMBDA item : item.event # "<http>")
FrameTypes == [k \in 1..Len(Frames) |-> Frames[k].data.type]
Positions(types, type) == { k \in 1..Len(types) : types[k] = type }

Streaming == request.parse_ok /\ request.stream
NonStreaming == request.parse_ok /\ ~request.stream

\* The loop of _process_conversation_with_streaming has been left.
LoopEnded == pc \in {"build", "respond", "raise", "done"}

IsPrefix(s, t) == Len(s) <= Len(t) /\ \A k \in 1..Len(s) : s[k] = t[k]

\* A usable backend response: a 200 body with choices[0].message.
Usable(resp) == resp.bound /\ ~resp.none /\ resp.has_choices
RequestsTools(resp) == Usable(resp) /\ Truthy(GetCalls(resp.tool_calls))
PlainReply(resp) == Usable(resp) /\ ~Truthy(GetCalls(resp.tool_calls))
Failed(resp) == resp.bound /\ resp.none

\* The backend did what the claims consider: it failed, replied plainly or
\* requested tools whose arguments are JSON.
BackendWellFormed ==
    \A k \in 1..Len(backend_log) :
        \/ Failed(backend_log[k])
        \/ PlainReply(backend_log[k])
        \/ /\ RequestsTools(backend_log[k])
           /\ \A j \in 1..Len(backend_log[k].tool_calls.calls) :
                  ~JsonLoadsRaises(backend_log[k].tool_calls.calls[j].arguments)

\* The tool calls the backend requested, over all its responses, in order.
RECURSIVE RequestedCalls(_)
RequestedCalls(log) ==
    IF Len(log) = 0 THEN <<>>
    ELSE (IF RequestsTools(log[1]) THEN log[1].tool_calls.calls ELSE <<>>)
             \o RequestedCalls(Tail(log))

AssistantPositions(conversation) ==
    { k \in 1..Len(conversation) : conversation[k].role = "assistant" }
Max(S) == CHOOSE x \in S : \A y \in S : y <= x
LastAssistant(conversation) == conversation[Max(AssistantPositions(conversation))]

\* The text of the single content block of the final response.
FinalText == final_response.content[1].text
OneTextBlock(content) == Len(content) = 1 /\ content[1].type = "text"

\* The caller of a non-streaming request got status 200 and the JSON message.
JsonDelivered ==
    /\ Len(wire) >= 2
    /\ wire[Len(wire) - 1] = HttpHead(200, "application/json")
    /\ wire[Len(wire)].data.type = "json_body"
    /\ \A k \in 1..Len(wire) : wire[k].data.type # "http_error"
DeliveredBody == wire[Len(wire)].data.body

\* -------------------------------------------------------------------- claims

\* C1: the tool loop ends after at most MAX_TOOL_ITERATIONS backend calls; in
\* every state the iteration counter equals the number of backend calls made so
\* far and never exceeds the ceiling, whatever each call returned.
C1_LoopBounded ==
    /\ [](iteration = backend_calls /\ backend_calls <= MAX_TOOL_ITERATIONS)
    /\ <>(pc = "done")

\* A run that made all fifteen backend calls and ended.
C1_Witness ==
    pc = "done" /\ backend_calls = MAX_TOOL_ITERATIONS /\ exception = NoException

\* C2: a streaming response starts with message_start then content_block_start,
\* each written once; every text delta lies after content_block_start and before
\* content_block_stop; a run without failure ends with content_block_stop,
\* message_delta, message_stop, and nothing follows message_stop.
C2_FrameOrder ==
    (Streaming /\ pc # "idle") =>
        LET t == FrameTypes
            n == Len(t)
        IN  /\ n >= 2
            /\ t[1] = "message_start"
            /\ t[2] = "content_block_start"
            /\ Cardinality(Positions(t, "message_start")) = 1
            /\ Cardinality(Positions(t, "content_block_start")) = 1
            /\ \A k \in Positions(t, "content_block_delta") :
                   /\ k > 2
                   /\ \A j \in Positions(t, "content_block_stop") : k < j
            /\ (pc = "done" /\ exception = NoException) =>
                   /\ n >= 5
                   /\ t[n - 2] = "content_block_stop"
                   /\ t[n - 1] = "message_delta"
                   /\ t[n] = "message_stop"
            /\ \A k \in Positions(t, "message_stop") : k = n
            /\ wire[Len(wire)].event # "<http>"

\* A streaming run with a two-call batch that completed normally.
C2_Witness ==
    /\ Streaming
    /\ pc = "done"
    /\ exception = NoException
    /\ Len(tool_executions) >= 2
    /\ Cardinality(Positions(FrameTypes, "content_block_delta")) >= 6
    /\ FrameTypes[Len(FrameTypes)] = "message_stop"

\* C3: in streaming mode an exception that leaves the orchestration yields
\* exactly one error frame, the last frame of the stream; no content_block_stop,
\* message_delta or message_stop is written in that run; what was written stays.
C3_ErrorFrame ==
    /\ [](Streaming =>
            LET t == FrameTypes
            IN  /\ \A k \in Positions(t, "error") : k = Len(t)
                /\ (pc = "done" /\ exception # NoException) =>
                       /\ t[Len(t)] = "error"
                       /\ Cardinality(Positions(t, "error")) = 1
                       /\ Frames[Len(t)].data.error.message = exception
                /\ exception # NoException =>
                       /\ Positions(t, "content_block_stop") = {}
                       /\ Positions(t, "message_delta") = {}
                       /\ Positions(t, "message_stop") = {})
    /\ [][IsPrefix(wire, wire')]_vars

\* A streaming run aborted inside a batch, after one tool was executed.
C3_Witness ==
    /\ Streaming
    /\ pc = "done"
    /\ exception = "JSONDecodeError"
    /\ Len(tool_executions) = 1
    /\ FrameTypes[Len(FrameTypes)] = "error"

\* C4: for a non-streaming request, whatever the backend does (plain reply,
\* tool calls up to the ceiling, failure on any iteration), the caller gets a
\* message object whose content is exactly one text block.  Stated for the
\* requests that carry at least one message.
C4_Original ==
    (NonStreaming /\ Len(request.messages) > 0 /\ pc = "done" /\ BackendWellFormed) =>
        /\ JsonDelivered
        /\ DeliveredBody.type = "message"
        /\ OneTextBlock(DeliveredBody.content)

\* A tool entry is governed by the assistant entry before its batch.
Governed(conversation, p) ==
    \E k \in 1..(p - 1) :
        /\ conversation[k].role = "assistant"
        /\ Truthy(conversation[k].tool_calls)
        /\ p - k <= Len(conversation[k].tool_calls.calls)
        /\ conversation[p].tool_call_id = conversation[k].tool_calls.calls[p - k].id
        /\ \A q \in (k + 1)..p : conversation[q].role = "tool"

Answered(conversation, k) ==
    LET calls == conversation[k].tool_calls.calls
        n == Len(calls)
    IN  /\ k + n <= Len(conversation)
        /\ \A j \in 1..n :
               /\ conversation[k + j].role = "tool"
               /\ conversation[k + j].tool_call_id = calls[j].id
        /\ k + n + 1 <= Len(conversation) => conversation[k + n + 1].role # "tool"

\* C5: whenever a backend call is issued and when the loop has ended normally,
\* every assistant entry with tool calls is followed by exactly one tool entry
\* per call, with the call's identifier, in the order of the calls, and every
\* tool entry answers a call of the assistant entry just before its batch.
C5_ToolEntriesPaired ==
    pc \in {"loop", "build", "respond"} =>
        \A k \in 1..Len(conversation_messages) :
            /\ (conversation_messages[k].role = "assistant"
                    /\ Truthy(conversation_messages[k].tool_calls))
                   => Answered(conversation_messages, k)
            /\ conversation_messages[k].role = "tool"
                   => Governed(conversation_messages, k)

\* The loop ended after two batches, one of them with two different identifiers.
C5_Witness ==
    /\ pc = "build"
    /\ Len(tool_executions) >= 4
    /\ \E k \in 1..Len(conversation_messages) :
           /\ Truthy(conversation_messages[k].tool_calls)
           /\ Len(conversation_messages[k].tool_calls.calls) = 2
           /\ conversation_messages[k].tool_calls.calls[1].id
                  # conversation_messages[k].tool_calls.calls[2].id

\* C6: if the first backend response carries no tool call (tool_calls absent,
\* null or empty), the loop ends after that one backend call, no tool is
\* executed, and the final answer text is the content of that message.
C6_PlainFirstReply ==
    (backend_calls >= 1 /\ PlainReply(backend_log[1])) =>
        /\ backend_calls = 1
        /\ tool_executions = <<>>
        /\ LoopEnded
        /\ exception = NoException
        /\ pc \in {"respond", "done"} =>
               /\ OneTextBlock(final_response.content)
               /\ FinalText = Get(backend_log[1].content, EmptyText)
        /\ (pc = "done" /\ NonStreaming) =>
               JsonDelivered /\ DeliveredBody = final_response

\* A request answered by a first reply whose tool_calls is the empty list.
C6_Witness ==
    /\ pc = "done"
    /\ Len(conversation_messages) = 2
    /\ backend_calls = 1
    /\ backend_log[1].tool_calls = ListCalls(<<>>)
    /\ FinalText = ReplyText

\* C7: if every backend response up to the ceiling requests tools, the loop
\* makes exactly MAX_TOOL_ITERATIONS backend calls, ends without an error, and
\* the final answer text is the text of the last assistant entry.
C7_Original ==
    (pc = "done" /\ backend_calls >= 1 /\ BackendWellFormed
         /\ \A k \in 1..Len(backend_log) : RequestsTools(backend_log[k])) =>
        /\ backend_calls = MAX_TOOL_ITERATIONS
        /\ exception = NoException
        /\ FinalText = LastAssistant(conversation_messages).content

\* C8: tool calls on backend calls 1..k-1 and a plain reply on call k give a
\* non-streaming response with stop_reason "end_turn" and the reply as its
\* text, after exactly k backend calls and one tool execution per requested call.
C8_ToolsThenReply ==
    (NonStreaming /\ pc = "done" /\ backend_calls >= 1
         /\ PlainReply(backend_log[backend_calls])) =>
        /\ \A k \in 1..(backend_calls - 1) : RequestsTools(backend_log[k])
        /\ iteration = backend_calls
        /\ Cardinality(AssistantPositions(conversation_messages)) = backend_calls
        /\ tool_executions = RequestedCalls(backend_log)
        /\ total_tool_calls = Len(tool_executions)
        /\ JsonDelivered
        /\ DeliveredBody.stop_reason = "end_turn"
        /\ OneTextBlock(DeliveredBody.content)
        /\ DeliveredBody.content[1].text
               = Get(backend_log[backend_calls].content, EmptyText)

\* The LS scenario: one call to LS, then the plain reply.
C8_Witness ==
    /\ NonStreaming
    /\ pc = "done"
    /\ backend_calls = 2
    /\ tool_executions = << ToolCall("call_1", "LS", "{}") >>
    /\ JsonDelivered
    /\ DeliveredBody.content[1].text = ReplyText
    /\ DeliveredBody.stop_reason = "end_turn"

\* C9: if every backend call fails, a non-streaming request still gets a 200
\* JSON message with empty text and the default usage numbers.  Stated for the
\* requests that carry at least one message.
C9_Original ==
    (NonStreaming /\ Len(request.messages) > 0 /\ pc = "done" /\ backend_calls >= 1
         /\ \A k \in 1..Len(backend_log) : Failed(backend_log[k])) =>
        /\ JsonDelivered
        /\ OneTextBlock(DeliveredBody.content)
        /\ DeliveredBody.content[1].text = EmptyText
        /\ DeliveredBody.usage = [input_tokens |-> DefaultInputTokens,
                                  output_tokens |-> DefaultOutputTokens]

\* The usage block of the last usable response of a log.
LastUsableUsage(log) ==
    FinalUsage(log[Max({ k \in 1..Len(log) : Usable(log[k]) })])

\* C10: a backend failure on call n > 1 ends the loop with a normal final
\* response: its text is that of the last assistant entry, its usage that of
\* the last successful call, and no HTTP 500 or error frame is written.
C10_Original ==
    (pc = "done" /\ request.parse_ok /\ backend_calls > 1 /\ BackendWellFormed
         /\ Failed(backend_log[backend_calls])) =>
        /\ exception = NoException
        /\ \A k \in 1..Len(wire) : wire[k].data.type \notin {"http_error", "error"}
        /\ OneTextBlock(final_response.content)
        /\ FinalText = LastAssistant(conversation_messages).content
        /\ final_response.usage = LastUsableUsage(backend_log)

\* C11: a failed backend call is never retried.  Once some backend call has
\* yielded no response (timeout, non-200 status, transport exception), no step
\* of the handler makes a backend call, executes a tool or appends an entry to
\* the conversation.
C11_NoRetry ==
    [][(\E k \in 1..Len(backend_log) : Failed(backend_log[k])) =>
           /\ backend_log' = backend_log
           /\ tool_executions' = tool_executions
           /\ conversation_messages' = conversation_messages]_vars

\* The second backend call failed after a batch was run; the handler finished.
C11_Witness ==
    /\ pc = "done"
    /\ backend_calls = 2
    /\ RequestsTools(backend_log[1])
    /\ Failed(backend_log[2])
    /\ Len(tool_executions) >= 1

\* The tool entries of a conversation, in order.
ToolEntries(conversation) == SelectSeq(conversation, LAMBDA entry : entry.role = "tool")

\* The responses of a log before its last one.
Earlier(log) == SubSeq(log, 1, Len(log) - 1)

\* C12: a failing tool never aborts the loop.  Every call handed to the executor
\* leaves a tool entry with the call's identifier and the text the executor
\* returned (a description, also for an unknown tool name); the calls of a batch
\* after it are still executed; after the batch the loop stands before its next
\* backend call, which it makes if the ceiling allows.  Only an arguments string
\* that is not JSON leaves a batch unfinished.
C12_ToolFailureContinues ==
    LET entries == ToolEntries(conversation_messages)
    IN  /\ Len(entries) = Len(tool_executions)
        /\ \A k \in 1..Len(entries) :
               /\ entries[k].tool_call_id = tool_executions[k].id
               /\ entries[k].content
                      = execute_tool_locally(tool_executions[k].name,
                                             tool_executions[k].arguments)
               /\ ~Falsy(entries[k].content)
        /\ pc = "tools" =>
               /\ i <= Len(tool_calls)
               /\ tool_executions
                      = RequestedCalls(Earlier(backend_log)) \o SubSeq(tool_calls, 1, i - 1)
        /\ (pc = "loop" /\ backend_calls >= 1) =>
               /\ tool_executions = RequestedCalls(backend_log)
               /\ LoopContinues(iteration) =>
                      ENABLED (\E outcome \in BackendOutcomes(iteration + 1, response) :
                                   call_backend(outcome))
        /\ (exception # NoException /\ RequestsTools(response)) =>
               /\ exception = "JSONDecodeError"
               /\ JsonLoadsRaises(tool_calls[i].arguments)

\* An unknown tool was called first in a batch of two; the second call was
\* executed and the backend was called again.
C12_Witness ==
    /\ backend_calls >= 2
    /\ Len(tool_executions) >= 2
    /\ tool_executions[1].name = "Frob"
    /\ tool_executions[2].name = "LS"
    /\ ToolEntries(conversation_messages)[1].tool_call_id = "call_2"

\* C13: within one request the work is strictly sequential.  A step of the
\* handler makes one backend call or executes one tool call, never both; tool
\* calls are executed one at a time in the order the backend requested them;
\* a backend call is issued only when every tool call of the earlier responses
\* has been executed and its entry appended.
C13_Sequential ==
    [][/\ backend_log' # backend_log =>
              /\ Len(backend_log') = Len(backend_log) + 1
              /\ tool_executions' = tool_executions
              /\ tool_executions = RequestedCalls(backend_log)
              /\ Len(ToolEntries(conversation_messages)) = Len(tool_executions)
       /\ tool_executions' # tool_executions =>
              /\ backend_log' = backend_log
              /\ Len(tool_executions) < Len(RequestedCalls(backend_log))
              /\ tool_executions'
                     = Append(tool_executions,
                              RequestedCalls(backend_log)[Len(tool_executions) + 1])
              /\ ToolEntries(conversation_messages')
                     = Append(ToolEntries(conversation_messages),
                              ToolEntry(tool_executions'[Len(tool_executions')]))]_vars

\* The backend was called again after a batch of two calls was executed.
C13_Witness ==
    /\ backend_calls >= 2
    /\ RequestsTools(backend_log[1])
    /\ Len(backend_log[1].tool_calls.calls) = 2
    /\ SubSeq(tool_executions, 1, 2) = backend_log[1].tool_calls.calls

\* C14: a non-streaming request emits no protocol frame: nothing is written to
\* the client before the HTTP status line, and all that is ever written is the
\* status line with its headers and the body.
C14_Original ==
    NonStreaming =>
        /\ Frames = <<>>
        /\ \A k \in 1..Len(wire) : wire[k].event = "<http>"
        /\ Len(wire) <= 2

\* A write to the closed connection has been attempted, and has failed.
WriteFailed == client.closed /\ Len(wire) > client.received

\* C15: in streaming mode, once a frame write has failed because the client
\* closed the connection, the handler stops: no step after the failed write
\* makes a backend call or executes a tool.
C15_Original ==
    [][WriteFailed =>
           /\ backend_log' = backend_log
           /\ tool_executions' = tool_executions]_vars

\* The texts of the text-delta frames on the wire, in order.
DeltaTexts ==
    LET deltas == SelectSeq(Frames, LAMBDA frame : frame.data.type = "content_block_delta")
    IN  [k \in 1..Len(deltas) |-> deltas[k].data.delta.text]

\* The tool calls a response asks for; none unless it requests tools.
CallsOf(resp) == IF RequestsTools(resp) THEN resp.tool_calls.calls ELSE <<>>

\* The notifications due for backend calls k.. of a log, of whose requested
\* tool calls the first `executed` were run: the iteration, the batch, and the
\* calls of a batch of more than one.
RECURSIVE ProgressOfCalls(_, _, _)
ProgressOfCalls(log, k, executed) ==
    IF k > Len(log) THEN <<>>
    ELSE LET calls == CallsOf(log[k])
             n == Len(calls)
             ran == IF executed < n THEN executed ELSE n
         IN  <<ThinkingText(k)>>
                 \o (IF n > 0 THEN <<ExecutingText(calls)>> ELSE <<>>)
                 \o (IF n > 1
                     THEN [j \in 1..ran |-> ToolProgressText(calls[j].name, j, n)]
                     ELSE <<>>)
                 \o ProgressOfCalls(log, k + 1, executed - ran)

\* The number of batches of a log, and the sizes of its batches of more than one.
RECURSIVE BatchCount(_)
BatchCount(log) ==
    IF Len(log) = 0 THEN 0
    ELSE (IF Len(CallsOf(log[1])) > 0 THEN 1 ELSE 0) + BatchCount(Tail(log))
RECURSIVE AnnouncedCalls(_)
AnnouncedCalls(log) ==
    IF Len(log) = 0 THEN 0
    ELSE (IF Len(CallsOf(log[1])) > 1 THEN Len(CallsOf(log[1])) ELSE 0)
             + AnnouncedCalls(Tail(log))

\* C16: progress notifications are sent once when the loop starts, once at the
\* head of each iteration (naming its number), once before each tool batch
\* (naming all its tools) and once before each call of a batch of more than one.
\* In streaming mode each is one text-delta frame, in that order, the first
\* being the loop-start one; with k backend calls and batches b1..bm run in
\* full the stream carries 1 + k + m + (sum of the bi > 1) progress deltas.
C16_ProgressPoints ==
    (Streaming /\ pc # "idle") =>
        LET expected ==
                <<StartingText>> \o ProgressOfCalls(backend_log, 1, Len(tool_executions))
        IN  /\ DeltaTexts[1] = StartingText
            /\ IsPrefix(expected, DeltaTexts)
            /\ (pc # "done" \/ exception # NoException) => DeltaTexts = expected
            /\ tool_executions = RequestedCalls(backend_log) =>
                   Len(expected) = 1 + backend_calls + BatchCount(backend_log)
                                     + AnnouncedCalls(backend_log)

\* A streaming run of two backend calls, the first asking for a batch of two:
\* six progress deltas, then the answer.
C16_Witness ==
    /\ Streaming
    /\ pc = "done"
    /\ exception = NoException
    /\ backend_calls = 2
    /\ Len(CallsOf(backend_log[1])) = 2
    /\ Len(tool_executions) = 2
    /\ Len(DeltaTexts) > 6
    /\ DeltaTexts[5] = ToolProgressText(tool_executions[2].name, 2, 2)
    /\ DeltaTexts[6] = ThinkingText(2)

\* The text deltas written after the progress notifications.
AnswerDeltas ==
    LET progress == 1 + Len(ProgressOfCalls(backend_log, 1, Len(tool_executions)))
    IN  SubSeq(DeltaTexts, progress + 1, Len(DeltaTexts))

\* One delta per word of a text, each word but the last followed by one space.
WordsWithSpaces(text) ==
    LET words == Split(text)
    IN  [k \in 1..Len(words) |-> IF k < Len(words) THEN <<words[k], " ">>
                                 ELSE <<words[k]>>]

\* A streaming run that ended normally: all its frames are on the wire.
StreamCompleted == Streaming /\ pc = "done" /\ exception = NoException

\* C17 as stated: after the loop and before content_block_stop the stream
\* carries exactly one delta with the paragraph separator and then one delta
\* per word of the final text, for every final text, the empty one included.
C17_Original ==
    StreamCompleted =>
        AnswerDeltas = << <<"\n\n">> >>
                           \o (IF Falsy(FinalText) THEN <<>> ELSE WordsWithSpaces(FinalText))

\* C17, amended: for a final text that is not empty the stream carries, after
\* the progress deltas and before content_block_stop, exactly one delta with the
\* paragraph separator and then one delta per word, each word followed by a
\* single space except the last; for an empty (or null) final text it carries
\* neither the separator nor any word delta.  Nothing of the answer is written
\* before the loop has ended.
C17_AnswerDeltas ==
    /\ StreamCompleted =>
           /\ AnswerDeltas = IF Falsy(FinalText) THEN <<>>
                             ELSE << <<"\n\n">> >> \o WordsWithSpaces(FinalText)
           /\ Len(Frames) = 2 + Len(DeltaTexts) + 3
           /\ FrameTypes[2 + Len(DeltaTexts) + 1] = "content_block_stop"
    /\ (Streaming /\ pc \notin {"idle", "done"}) => AnswerDeltas = <<>>

\* A streaming run that ended with the five-token reply of three words.
C17_Witness ==
    /\ StreamCompleted
    /\ FinalText = ReplyText
    /\ AnswerDeltas = << <<"\n\n">>, <<"Found", " ">>, <<"two", " ">>, <<"files">> >>

\* The message_delta frames on the wire.
TurnDeltas == SelectSeq(Frames, LAMBDA frame : frame.data.type = "message_delta")

\* C18: every final response the loop builds has stop_reason "end_turn", after a
\* plain reply as well as at the iteration ceiling; in streaming mode the one
\* message_delta frame carries that response's stop reason and its usage block.
C18_EndTurn ==
    /\ final_response # NoFinal =>
           /\ pc \in {"respond", "done"}
           /\ final_response.stop_reason = "end_turn"
           /\ final_response.usage = FinalUsage(backend_log[backend_calls])
    /\ (request.parse_ok /\ pc \in {"respond", "done"} /\ exception = NoException) =>
           final_response # NoFinal
    /\ StreamCompleted =>
           /\ Len(TurnDeltas) = 1
           /\ TurnDeltas[1].data.delta.stop_reason = final_response.stop_reason
           /\ TurnDeltas[1].data.usage = final_response.usage

\* A streaming run that hit the ceiling with the backend still asking for tools.
C18_Witness ==
    /\ StreamCompleted
    /\ backend_calls = MAX_TOOL_ITERATIONS
    /\ RequestsTools(backend_log[MAX_TOOL_ITERATIONS])
    /\ TurnDeltas[1].data.delta.stop_reason = "end_turn"
    /\ TurnDeltas[1].data.usage = [input_tokens |-> 7, output_tokens |-> 3]

\* The entries the loop appends for a log of whose requested tool calls the
\* first `executed` were run.
RECURSIVE LoopEntries(_, _)
LoopEntries(log, executed) ==
    IF Len(log) = 0 THEN <<>>
    ELSE LET calls == CallsOf(log[1])
             ran == IF executed < Len(calls) THEN executed ELSE Len(calls)
         IN  (IF Usable(log[1]) THEN <<AssistantEntry(log[1])>> ELSE <<>>)
                 \o [j \in 1..ran |-> ToolEntry(calls[j])]
                 \o LoopEntries(Tail(log), executed - ran)

\* C19: the streaming and the non-streaming path run the same tool loop.  What
\* the loop holds is determined by the messages of the request and the backend
\* responses so far, whatever the `stream` flag: the tool calls executed are
\* those the responses requested, in order; the conversation is the converted
\* request followed by the entries of those responses and executions; the
\* final response is built from that conversation and the last response; and
\* either path makes at least one backend call before its loop ends.
C19_SameLoop ==
    request.parse_ok =>
        /\ IsPrefix(tool_executions, RequestedCalls(backend_log))
        /\ pc # "idle" =>
               conversation_messages
                   = _convert_messages_to_openai(request.messages)
                         \o LoopEntries(backend_log, Len(tool_executions))
        /\ (pc \in {"loop", "build", "respond"} \/ (pc = "done" /\ exception = NoException)) =>
               tool_executions = RequestedCalls(backend_log)
        /\ LoopEnded => backend_calls >= 1
        /\ (pc \in {"respond", "done"} /\ exception = NoException) =>
               final_response
                   = FinalResponse(_convert_messages_to_openai(request.messages)
                                       \o LoopEntries(backend_log,
                                                      Len(RequestedCalls(backend_log))),
                                   backend_log[backend_calls])
        /\ (pc = "done" /\ exception = NoException /\ ~request.stream) =>
               JsonDelivered /\ DeliveredBody = final_response

\* A non-streaming request whose loop ran a batch and then got the reply.
C19_Witness ==
    /\ NonStreaming
    /\ pc = "done"
    /\ exception = NoException
    /\ backend_calls = 2
    /\ Len(tool_executions) = 2
    /\ Len(conversation_messages) = Len(request.messages) + 4
    /\ DeliveredBody.content[1].text = ReplyText

\* C20: a request whose body is not parseable JSON is rejected before
\* orchestration starts, in streaming and non-streaming mode alike: the client
\* gets HTTP 400 and nothing else, no frame is written, no backend call is made
\* and no tool is executed.
C20_Original ==
    ~request.parse_ok =>
        /\ pc \in {"idle", "done"}
        /\ pc = "idle" => wire = <<>>
        /\ pc = "done" => wire = << HttpError(400) >>
        /\ Frames = <<>>
        /\ backend_log = <<>>
        /\ tool_executions = <<>>
        /\ conversation_messages = <<>>

\* The texts of the text-delta frames among the writes w.
ProgressOn(w) ==
    LET deltas == SelectSeq(w, LAMBDA item : item.data.type = "content_block_delta")
    IN  [k \in 1..Len(deltas) |-> deltas[k].data.delta.text]

\* What a handler holds is what its own request and its own backend responses
\* make it: the counter, the conversation, and the progress frames on its wire.
OwnState(req, w, conversation, n, log, executions) ==
    /\ n = Len(log)
    /\ IsPrefix(executions, RequestedCalls(log))
    /\ conversation = _convert_messages_to_openai(req.messages)
                          \o LoopEntries(log, Len(executions))
    /\ IsPrefix(<<StartingText>> \o ProgressOfCalls(log, 1, Len(executions)),
                ProgressOn(w))
    /\ req.stream => w[1] = HttpHead(200, "text/event-stream")
    /\ ~req.stream => \A k \in 1..Len(w) : w[k].data.type # "message_start"

\* C21: every request is handled with request-local state.  With several
\* requests in flight (one being handled, others handled before it or waiting),
\* the conversation, the iteration counter, the backend calls and the frames of
\* each are those of its own request and its own backend responses, whatever
\* the other requests were and whenever they arrived.
C21_RequestLocal ==
    /\ pc = "idle" =>
           /\ wire = <<>>
           /\ conversation_messages = <<>>
           /\ iteration = 0
           /\ backend_log = <<>>
    /\ pc \in {"loop", "tools", "build", "respond", "raise", "done"} =>
           OwnState(request, wire, conversation_messages, iteration, backend_log,
                    tool_executions)
    /\ backend_calls >= 1 =>
           IsPrefix(payload.messages, conversation_messages)
    /\ \A k \in 1..Len(finished) :
           IF finished[k].inbound.method = "POST"
                  /\ finished[k].inbound.path \in {"/v1/messages", "/messages"}
           THEN OwnState(finished[k].inbound.body, finished[k].wire,
                         finished[k].conversation_messages, finished[k].iteration,
                         finished[k].backend_log, finished[k].tool_executions)
           ELSE /\ finished[k].conversation_messages = <<>>
                /\ finished[k].backend_log = <<>>
                /\ Len(finished[k].wire) <= 2

\* A streaming request ran its loop to the ceiling; a non-streaming one is now
\* in its first tool batch while a third request waits.
C21_Witness ==
    /\ Len(finished) = 1
    /\ finished[1].inbound.body.stream
    /\ finished[1].iteration = MAX_TOOL_ITERATIONS
    /\ ~request.stream
    /\ pc = "tools"
    /\ iteration = 1
    /\ Len(pending) = 1

\* The `event:` lines a client collects from the response.
EventLines == { wire[k].event : k \in 1..Len(wire) } \ {"<http>", NoEventLine}

\* C22: a successful streaming response carries an `event:` line for each of
\* the six event types.
C22_Original ==
    StreamCompleted =>
        {"message_start", "content_block_start", "content_block_delta",
         "content_block_stop", "message_delta", "message_stop"} \subseteq EventLines

\* A non-streaming request during which the backend asked for tools was answered.
ToolsCalledAndAnswered ==
    NonStreaming /\ pc = "done" /\ exception = NoException /\ Len(tool_executions) >= 1

ToolUseBlocks(content) == { k \in 1..Len(content) : content[k].type = "tool_use" }

HealthWaiting == Len(pending) > 0 /\ Head(pending) = Inbound("GET", "/health", NoBody)

\* The server thread is inside the handler of a message request.
Orchestrating == pc \in {"loop", "tools", "build", "respond", "raise"}

\* C24 as stated: the health endpoint is available whether or not a message
\* request is being orchestrated at that moment: a GET /health that has reached
\* the server never waits behind a running orchestration.
C24_Original == ~(HealthWaiting /\ Orchestrating)

\* C25: the conversation of a request is mutated only by appends.  It starts as
\* the translation of the request's messages; after that every step of the
\* handler leaves the conversation it found as a prefix of the conversation it
\* leaves, so no entry is edited or removed and the translated initial messages
\* stay at the front.
C25_AppendOnly ==
    [][/\ (pc = "idle" /\ pc' # "done") =>
              conversation_messages' = _convert_messages_to_openai(request.messages)
       /\ pc # "idle" =>
              /\ IsPrefix(conversation_messages, conversation_messages')
              /\ IsPrefix(_convert_messages_to_openai(request.messages),
                          conversation_messages')]_vars

\* Two rounds of two tools went by: the conversation holds the initial message,
\* two assistant entries with two tool entries each, and the reply.
C25_Witness ==
    /\ pc = "done"
    /\ exception = NoException
    /\ Len(request.messages) = 1
    /\ backend_calls = 3
    /\ Len(tool_executions) = 4
    /\ Len(conversation_messages) = 8
    /\ conversation_messages[1] = _convert_messages_to_openai(request.messages)[1]
    /\ conversation_messages[8].role = "assistant"

\* The translator has returned and nothing has been appended yet: the
\* conversation is the list it returned.
Translated == pc = "loop" /\ backend_log = <<>>

\* What one item of a content list contributes to the text of its message.
Contributes(item) == item.type \in {"text", "tool_result"}
Rendered(item) ==
    IF item.type = "text" THEN item.text
    ELSE <<"Tool", " ", "result:", " ">> \o ResultText(item.content)

\* The first n items folded from the left, with one space between
\* contributions: `any` tells whether some item has contributed.
RECURSIVE Folded(_, _)
Folded(items, n) ==
    IF n = 0 THEN [any |-> FALSE, text |-> EmptyText]
    ELSE LET before == Folded(items, n - 1)
         IN  IF ~Contributes(items[n]) THEN before
             ELSE IF before.any
                  THEN [any |-> TRUE, text |-> before.text \o <<" ">> \o Rendered(items[n])]
                  ELSE [any |-> TRUE, text |-> Rendered(items[n])]

\* The back message is the translation of the front message.
TranslationOf(back, front) ==
    /\ back.role = front.role
    /\ front.kind = "str" => back.content = front.text
    /\ front.kind = "list" =>
           /\ Folded(front.items, Len(front.items)).any
           /\ back.content = Folded(front.items, Len(front.items)).text

\* C26: _convert_messages_to_openai maps each front message to at most one
\* back message, in the same relative order and with the same role: the back
\* messages are the translations of a subsequence of the front messages.
\* String content is passed through unchanged; the text and tool_result items
\* of a content list (a tool result as "Tool result: " and its flattened text)
\* are folded in item order into the one text of the back message.
C26_MessageTranslation ==
    Translated =>
        LET front == request.messages
            back == conversation_messages
        IN  /\ Len(back) <= Len(front)
            /\ \E f \in [1..Len(back) -> 1..Len(front)] :
                   /\ \A j, k \in 1..Len(back) : j < k => f[j] < f[k]
                   /\ \A k \in 1..Len(back) : TranslationOf(back[k], front[f[k]])

\* A list message with text, an image, a two-part tool result and text again
\* was folded into one assistant message, after a string message.
C26_Witness ==
    /\ Translated
    /\ Len(request.messages) = 2
    /\ request.messages[1].kind = "str"
    /\ request.messages[2].kind = "list"
    /\ Len(request.messages[2].items) = 4
    /\ Len(conversation_messages) = 2
    /\ conversation_messages[2].role = "assistant"
    /\ conversation_messages[2].content =
           ThinkText \o <<" ", "Tool", " ", "result:", " ">> \o LsOutput \o <<" ">>
               \o Repr \o <<" ">> \o UserText

\* A front message whose content list holds no text and no tool_result item.
Dropped(msg) ==
    msg.kind = "list" /\ ~\E k \in 1..Len(msg.items) : Contributes(msg.items[k])

\* C27: a front message whose content list yields no text item and no
\* tool_result item (an empty list, only other item types) produces no back
\* message: the number of back messages is the number of front messages with
\* string content plus the number with at least one text or tool_result item,
\* and the translation of a dropped message alone is the empty list.
C27_DroppedMessages ==
    Translated =>
        LET front == request.messages
            back == conversation_messages
        IN  /\ Len(back) =
                   Cardinality({ j \in 1..Len(front) : front[j].kind = "str" })
                     + Cardinality({ j \in 1..Len(front) :
                                         front[j].kind = "list" /\ ~Dropped(front[j]) })
            /\ \A j \in 1..Len(front) :
                   Dropped(front[j]) => _convert_messages_to_openai(<< front[j] >>) = <<>>
            /\ (\A j \in 1..Len(front) : Dropped(front[j])) => back = <<>>

\* A message holding only an image was dropped; the tool result after it was
\* translated.
C27_Witness ==
    /\ Translated
    /\ Len(request.messages) = 2
    /\ request.messages[1].items = << ImageItem >>
    /\ Dropped(request.messages[1])
    /\ request.messages[2].kind = "list"
    /\ ~Dropped(request.messages[2])
    /\ Len(conversation_messages) = 1
    /\ conversation_messages[1].content = <<"Tool", " ", "result:", " ">> \o LsOutput

\* An HTTP 500 or an error frame has been written to the client.
ErrorWritten ==
    \E k \in 1..Len(wire) :
        \/ wire[k].event = "error"
        \/ wire[k].event = "<http>" /\ wire[k].data.type = "http_error"
                                    /\ wire[k].data.code = 500

\* C29 as stated: the translator never fails.  For a request whose body parses,
\* whatever its messages hold (a message without role or content, a content
\* list with an item that is no typed mapping), the conversion returns a result:
\* no exception leaves it, and neither an HTTP 500 nor an error frame is written.
C29_Original ==
    request.parse_ok => (pc # "raise" /\ exception = NoException /\ ~ErrorWritten)

\* A request has been posted to the backend; `payload` is the last one.
Sent == payload # NoPayload

\* The positions of the front tools that carry a name and an input schema.
CarriesBoth(tools) ==
    { j \in 1..Len(tools) : tools[j].name # Missing /\ tools[j].input_schema # Missing }

\* C28: _convert_tools_to_openai keeps exactly the front tools that carry both a
\* name and an input schema, in their original order, and skips the others.
\* Each kept tool becomes a function declaration with the front name, the front
\* input schema verbatim as parameters and the front description, or "" when
\* there is none; so name and schema are recoverable from the declaration.
C28_ToolTranslation ==
    pc = "build" =>
        LET front == request.tools
            back == _convert_tools_to_openai(front)
        IN  /\ payload.tools.list = back
            /\ Len(back) = Cardinality(CarriesBoth(front))
            /\ \E f \in [1..Len(back) -> 1..Len(front)] :
                   /\ { f[k] : k \in 1..Len(back) } = CarriesBoth(front)
                   /\ \A j, k \in 1..Len(back) : j < k => f[j] < f[k]
                   /\ \A k \in 1..Len(back) :
                          /\ back[k].type = "function"
                          /\ back[k].function.name = front[f[k]].name
                          /\ back[k].function.parameters = front[f[k]].input_schema
                          /\ back[k].function.description =
                                 (IF front[f[k]].description = Missing THEN ""
                                  ELSE front[f[k]].description)

\* A tool without input schema was skipped; the tool after it, which has no
\* description, was declared with its name, its schema and "".
C28_Witness ==
    /\ pc = "build"
    /\ Len(request.tools) = 2
    /\ request.tools[1].name # Missing
    /\ request.tools[1].input_schema = Missing
    /\ request.tools[2] = FrontTool("LS", PathSchema, Missing)
    /\ payload.tools.attached
    /\ Len(payload.tools.list) = 1
    /\ payload.tools.list[1].function =
           [name |-> "LS", description |-> "", parameters |-> PathSchema]

\* C30: every backend request carries a max_tokens of at most 16384: the
\* caller's max_tokens when that is at most 16384, 16384 when the caller asked
\* for more, 4096 when the caller gave none.  The tools list is attached to the
\* request only when it is non-empty.
C30_MaxTokensCapped ==
    Sent =>
        /\ payload.max_tokens <= 16384
        /\ (request.max_tokens.present /\ request.max_tokens.value <= 16384) =>
               payload.max_tokens = request.max_tokens.value
        /\ (request.max_tokens.present /\ request.max_tokens.value > 16384) =>
               payload.max_tokens = 16384
        /\ ~request.max_tokens.present => payload.max_tokens = 4096
        /\ payload.tools.attached <=> Len(payload.tools.list) > 0
        /\ payload.tools.attached <=> CarriesBoth(request.tools) # {}

\* The caller asked for twice the cap and sent only a tool without schema: the
\* backend was asked for 16384 tokens, without a tools list.
C30_Witness ==
    /\ Sent
    /\ request.max_tokens = MaxTokens(2 * MaxTokensCap)
    /\ payload.max_tokens = MaxTokensCap
    /\ Len(request.tools) = 1
    /\ request.tools[1].input_schema = Missing
    /\ ~payload.tools.attached

\* json.loads has raised on the arguments of a tool call.
BadArguments == request.parse_ok /\ exception = "JSONDecodeError"

\* The entries a batch leaves behind when its first `ran` calls were executed.
BatchEntries(resp, ran) ==
    << AssistantEntry(resp) >> \o [k \in 1..ran |-> ToolEntry(CallsOf(resp)[k])]

\* C31: a tool call whose arguments string is not JSON aborts the whole
\* orchestration.  The exception leaves the loop and is reported as HTTP 500
\* (non-streaming) or as an error frame (streaming), and no backend call follows.
\* The assistant entry of the batch is in the conversation, the calls before the
\* failing one were executed and have their tool entries, and neither the
\* failing call nor any later call of the batch was executed or got an entry.
C31_BadArgumentsAbort ==
    BadArguments =>
        LET batch == backend_log[backend_calls]
            calls == CallsOf(batch)
            ran == i - 1
            before == RequestedCalls(Earlier(backend_log))
        IN  /\ pc \in {"raise", "done"}
            /\ i \in 1..Len(calls)
            /\ JsonLoadsRaises(calls[i].arguments)
            /\ \A k \in 1..ran : ~JsonLoadsRaises(calls[k].arguments)
            /\ tool_executions = before \o SubSeq(calls, 1, ran)
            /\ Len(conversation_messages) >= ran + 1
            /\ SubSeq(conversation_messages, Len(conversation_messages) - ran,
                      Len(conversation_messages)) = BatchEntries(batch, ran)
            /\ Len(ToolEntries(conversation_messages)) = Len(before) + ran
            /\ final_response = NoFinal
            /\ pc = "done" =>
                   /\ ErrorWritten
                   /\ NonStreaming => /\ wire[Len(wire)] = HttpError(500)
                                      /\ \A k \in 1..Len(wire) :
                                             wire[k].data.type \notin {"http_head", "json_body"}
                   /\ Streaming => /\ wire[Len(wire)].event = "error"
                                   /\ "message_stop" \notin { FrameTypes[k] :
                                                                 k \in 1..Len(FrameTypes) }

\* A streaming request: the first call of a batch of two was executed, the
\* second had arguments that are not JSON, and the stream ended in an error frame.
C31_Witness ==
    /\ BadArguments
    /\ Streaming
    /\ pc = "done"
    /\ backend_calls = 1
    /\ i = 2
    /\ Len(CallsOf(backend_log[1])) = 2
    /\ tool_executions = << CallsOf(backend_log[1])[1] >>
    /\ Len(ToolEntries(conversation_messages)) = 1
    /\ wire[Len(wire)].event = "error"

\* The backend call at the ceiling has asked for tools, and the handler is past
\* that batch: back at the loop condition or beyond, with no exception raised.
CeilingBatchDone ==
    /\ backend_calls = MAX_TOOL_ITERATIONS
    /\ RequestsTools(backend_log[MAX_TOOL_ITERATIONS])
    /\ pc \in {"loop", "build", "respond", "done"}
    /\ exception = NoException

\* C32: when the response of the 15th backend call still asks for tools, every
\* call of that batch is executed and its result appended before the loop ends,
\* although no backend call follows: the conversation ends with the assistant
\* entry of that response and one tool entry per call, the last entry a tool
\* entry (for a batch whose arguments all parse).
C32_LastBatchExecuted ==
    CeilingBatchDone =>
        LET batch == backend_log[MAX_TOOL_ITERATIONS]
            calls == CallsOf(batch)
            n == Len(calls)
        IN  /\ iteration = MAX_TOOL_ITERATIONS
            /\ Len(tool_executions) >= n
            /\ SubSeq(tool_executions, Len(tool_executions) - n + 1,
                      Len(tool_executions)) = calls
            /\ Len(conversation_messages) > n
            /\ SubSeq(conversation_messages, Len(conversation_messages) - n,
                      Len(conversation_messages)) = BatchEntries(batch, n)
            /\ conversation_messages[Len(conversation_messages)].role = "tool"
            /\ ~ENABLED (\E outcome \in AllOutcomes : call_backend(outcome))

\* Fifteen backend calls each asked for two tools; the handler has finished and
\* the conversation ends with the result of the thirtieth execution.
C32_Witness ==
    /\ CeilingBatchDone
    /\ pc = "done"
    /\ Len(CallsOf(backend_log[MAX_TOOL_ITERATIONS])) = 2
    /\ Len(tool_executions) = 2 * MAX_TOOL_ITERATIONS
    /\ conversation_messages[Len(conversation_messages)] =
           ToolEntry(CallsOf(backend_log[MAX_TOOL_ITERATIONS])[2])

\* An item written to the client that announces an iteration, and the step
\* number it names.
IsAnnouncement(item) ==
    /\ item.event = "content_block_delta"
    /\ Len(item.data.delta.text) = 5
    /\ item.data.delta.text[1] = "Thinking"
Announces(item, n) == item.data.delta.text[5] = ToString(n) \o ")..."

\* The iteration announcements written so far, in order.
Announcements == SelectSeq(wire, IsAnnouncement)

\* C33: every backend call is immediately preceded by exactly one iteration
\* announcement, and the announced step numbers are 1, 2, ..., k, where k is
\* the number of backend calls of the request.  In every state the
\* announcements are as many as the backend calls and the n-th names step n; a
\* step of the handler that makes a backend call first writes the announcement
\* of that call, with no tool execution and no conversation entry before the
\* response is in (the only entry it appends is the one built from that
\* response), and a step without a backend call writes no announcement.
C33_AnnouncedSteps ==
    /\ [](/\ Len(Announcements) = backend_calls
          /\ \A n \in 1..Len(Announcements) : Announces(Announcements[n], n))
    /\ [][/\ backend_log' # backend_log =>
                 /\ backend_calls' = backend_calls + 1
                 /\ Len(wire') > Len(wire)
                 /\ IsAnnouncement(wire'[Len(wire) + 1])
                 /\ Announces(wire'[Len(wire) + 1], backend_calls')
                 /\ \A k \in (Len(wire) + 2)..Len(wire') : ~IsAnnouncement(wire'[k])
                 /\ tool_executions' = tool_executions
                 /\ conversation_messages' \in
                        { conversation_messages,
                          Append(conversation_messages,
                                 AssistantEntry(backend_log'[backend_calls'])) }
          /\ backend_log' = backend_log =>
                 \A k \in (Len(wire) + 1)..Len(wire') : ~IsAnnouncement(wire'[k])]_vars

\* Three backend calls were made, with tools run between them; the client was
\* told of steps 1, 2 and 3.
C33_Witness ==
    /\ pc = "done"
    /\ backend_calls = 3
    /\ Len(tool_executions) = 4
    /\ Len(Announcements) = 3
    /\ Announces(Announcements[3], 3)

\* C34: the server processes requests strictly one at a time.  A waiting
\* request, GET /health included, begins to be handled only when no handler is
\* running, and in arrival order; while a message request is being orchestrated
\* no other request is answered and the request in hand stays the same; what
\* was written and executed for a request that is done is never added to, so
\* the frames and tool executions of two requests never interleave.
C34_OneAtATime ==
    [][/\ Len(pending') < Len(pending) => (pc = "free" /\ pending' = Tail(pending))
       /\ Orchestrating => (finished' = finished /\ request' = request)
       /\ IsPrefix(finished, finished')
       /\ Len(finished') <= Len(finished) + 1
       /\ (pc # "free" /\ pc' # "free") =>
              (IsPrefix(wire, wire') /\ IsPrefix(tool_executions, tool_executions'))]_vars

\* A liveness check is waiting while the handler of a message request runs the
\* tools of its second iteration; nothing else has been answered.
C34_Witness ==
    /\ HealthWaiting
    /\ pc = "tools"
    /\ iteration = 2
    /\ Len(tool_executions) = 1
    /\ finished = <<>>

\* The status lines and bodies written to the client, in order.
HttpItems == SelectSeq(wire, LAMBDA item : item.event = "<http>")

\* C35: in non-streaming mode the HTTP 200 status and the JSON body are written
\* only after the tool loop has ended and the final response was built, and the
\* body is that response; if an exception leaves the orchestration the handler
\* writes HTTP 500 and no 200.  In streaming mode the 200 status is written
\* before the first backend call, and a later failure is reported by an error
\* frame, never by a status line.
C35_StatusCommitment ==
    /\ NonStreaming =>
           /\ pc # "done" => HttpItems = <<>>
           /\ (pc = "done" /\ exception = NoException) =>
                  /\ LoopEnded
                  /\ final_response # NoFinal
                  /\ HttpItems = << HttpHead(200, "application/json"),
                                    JsonBody(final_response) >>
           /\ (pc = "done" /\ exception # NoException) =>
                  HttpItems = << HttpError(500) >>
    /\ Streaming =>
           /\ (pc # "idle") => (Len(wire) >= 1 /\ wire[1] = HttpHead(200, "text/event-stream"))
           /\ backend_calls >= 1 => HttpItems = << HttpHead(200, "text/event-stream") >>
           /\ Len(HttpItems) <= 1
           /\ (pc = "done" /\ exception # NoException) => wire[Len(wire)].event = "error"

\* A non-streaming request ran one tool and then met arguments that are not
\* JSON: the caller was sent a 500 and no 200.
C35_Witness ==
    /\ NonStreaming
    /\ pc = "done"
    /\ exception = "JSONDecodeError"
    /\ Len(tool_executions) = 1
    /\ HttpItems = << HttpError(500) >>

\* The deltas of a list put one after the other.
RECURSIVE Concatenated(_)
Concatenated(deltas) ==
    IF Len(deltas) = 0 THEN <<>> ELSE deltas[1] \o Concatenated(Tail(deltas))

\* The words of a text with one space between each two.
RECURSIVE SingleSpaced(_)
SingleSpaced(words) ==
    IF Len(words) = 0 THEN <<>>
    ELSE IF Len(words) = 1 THEN << words[1] >>
    ELSE << words[1], " " >> \o SingleSpaced(Tail(words))

\* A text without leading or trailing whitespace whose words are separated by
\* exactly one space.
PlainlySpaced(text) ==
    /\ Len(text) % 2 = 1
    /\ \A k \in 1..Len(text) : IF k % 2 = 1 THEN ~IsSpace(text[k]) ELSE text[k] = " "

\* The deltas of the answer after the separator.
WordDeltasSent == IF Len(AnswerDeltas) = 0 THEN <<>> ELSE Tail(AnswerDeltas)

\* C36: the concatenation of the word deltas _stream_text_naturally emits for
\* a final text is the words of that text joined by single spaces.  It equals
\* the text exactly when the text has no leading or trailing whitespace and one
\* space between each two words; line breaks and runs of spaces are not
\* preserved.  For a text made only of whitespace the separator delta is
\* emitted and no word delta.
C36_WordsJoined ==
    (StreamCompleted /\ ~Falsy(FinalText)) =>
        /\ AnswerDeltas[1] = <<"\n\n">>
        /\ Len(WordDeltasSent) = Len(Split(FinalText))
        /\ Concatenated(WordDeltasSent) = SingleSpaced(Split(FinalText))
        /\ Concatenated(WordDeltasSent) = FinalText <=> PlainlySpaced(FinalText)
        /\ Split(FinalText) = <<>> => AnswerDeltas = << <<"\n\n">> >>

\* A text with a leading run of spaces and a line break between its two words
\* was streamed as the two words with one space between them.
C36_Witness ==
    /\ StreamCompleted
    /\ FinalText = <<"  ", "Found", "\n", "files">>
    /\ WordDeltasSent = << <<"Found", " ">>, <<"files">> >>
    /\ Concatenated(WordDeltasSent) # FinalText

====
